---- MODULE Spec2Model ----
(***************************************************************************)
(* A model of the leveled, multi-sink logger: the sink registry, the four  *)
(* routing lists, the level gate, the dispatch loops and the message       *)
(* builder (logger.go), together with the sinks it is used with.           *)
(*                                                                         *)
(* Strings are sequences of tokens.  The characters the code treats        *)
(* specially (newline, carriage return, tab, space) are tokens of their    *)
(* own; the other tokens stand for text without any of those characters.   *)
(***************************************************************************)
EXTENDS Integers, Sequences, FiniteSets, TLC

(***************************************************************************)
(* Program constants (logger.go:13-20).                                    *)
(***************************************************************************)
LEVEL_ERROR == 0
LEVEL_INFO == 1
LEVEL_DEBUG == 2
TRACE_TYPE_ONE == 0
TRACE_TYPE_ANY == 1

(***************************************************************************)
(* Bounds of the model.                                                    *)
(***************************************************************************)
\* the longest argument list of one attach call
MaxArgs == 2
\* the longest sequence of message parts handed to the message builder
MaxParts == 2

\* Sink identifiers, and the sink objects that may be registered.
IDs == {"a", "b"}
Sinks == {"s1", "s2"}
NoSink == "none"

\* The values SetLevel is called with.
Levels == {LEVEL_ERROR, LEVEL_INFO, LEVEL_DEBUG}
\* The values SetTraceType is called with: the two modes and one other.
TraceValues == {TRACE_TYPE_ONE, TRACE_TYPE_ANY, TRACE_TYPE_ANY + 1}

NL == "\n"
CR == "\r"
TAB == "\t"
SP == " "

(***************************************************************************)
(* Sequence helpers.                                                       *)
(***************************************************************************)
Range(s) == {s[i] : i \in 1..Len(s)}

SeqsUpTo(S, n) == UNION {[1..k -> S] : k \in 0..n}

RECURSIVE Flatten(_)
Flatten(ss) == IF ss = <<>> THEN <<>> ELSE Head(ss) \o Flatten(Tail(ss))

IsPrefix(s, t) == Len(s) <= Len(t) /\ SubSeq(t, 1, Len(s)) = s

(***************************************************************************)
(* strings.Replacer with single-character patterns maps every character on *)
(* its own, left to right.  MESSAGE_REPLACER is                            *)
(* strings.NewReplacer("\r", "", "\n", "\t") (logger.go:193).              *)
(***************************************************************************)
MessageReplacerNewlineToSpace(c) == IF c = CR THEN <<>> ELSE IF c = NL THEN <<SP>> ELSE <<c>>
MessageReplacerKeepsCR(c) == IF c = NL THEN <<TAB>> ELSE <<c>>
MESSAGE_REPLACER(c) == IF c = CR THEN <<>> ELSE IF c = NL THEN <<TAB>> ELSE <<c>>

MessageReplace(s) == Flatten([i \in 1..Len(s) |-> MESSAGE_REPLACER(s[i])])

\* MESSAGE_SEPARATOR = []byte(" ")
MESSAGE_SEPARATOR == <<SP>>

\* bytes.Replace(b, "\n", "", -1)
DropNewlines(s) == SelectSeq(s, LAMBDA c : c # NL)

(***************************************************************************)
(* Message parts: a string (a token sequence) or an integer.  Sprint is    *)
(* fmt.Fprint of one value.                                                *)
(***************************************************************************)
StrPart(s) == [kind |-> "str", s |-> s, n |-> 0]
IntPart(n) == [kind |-> "int", s |-> <<>>, n |-> n]
Sprint(v) == IF v.kind = "int" THEN <<ToString(v.n)>> ELSE v.s

\* fmt.Sprintf(format, params...): the format is a token sequence in which "%v"
\* is a verb; a verb without a parameter prints "%!v(MISSING)", parameters
\* without a verb are reported after the text as "%!(EXTRA)".
RECURSIVE SprintfFrom(_, _)
SprintfFrom(format, params) ==
    IF format = <<>>
    THEN IF params = <<>> THEN <<>> ELSE <<"%!(EXTRA)">>
    ELSE IF Head(format) = "%v"
         THEN IF params = <<>>
              THEN <<"%!v(MISSING)">> \o SprintfFrom(Tail(format), params)
              ELSE Sprint(Head(params)) \o SprintfFrom(Tail(format), Tail(params))
         ELSE <<Head(format)>> \o SprintfFrom(Tail(format), params)

Sprintf(format, params) == SprintfFrom(format, params)

(***************************************************************************)
(* The call stack.  A frame is [file, line], the line number in digits;    *)
(* callers[1] is the function that called makeMessage, callers[2] its      *)
(* caller, and so on.                                                      *)
(* logger.Output(i, "") with log.Lshortfile writes "<file>:<line>: \n" for *)
(* the frame i above log.Output (frame 1 is makeMessage itself), and       *)
(* "???:0: \n" when the stack has no such frame.                           *)
(***************************************************************************)
Frame(file, line) == [file |-> file, line |-> line]
NoFrame == Frame("???", "0")

FrameAt(callers, i) == IF i - 1 <= Len(callers) THEN callers[i - 1] ELSE NoFrame

\* the text logger.Output(i, "") leaves in buf
OutputLine(fr) == <<fr.file, ":", fr.line, ":", SP, NL>>

\* The walk of logger.go:208-224 from frame i on: the text gathered in lineBuf.
RECURSIVE WalkFrom(_, _, _)
WalkFrom(callers, traceType, i) ==
    IF i >= 6 THEN <<>>
    ELSE LET fr == FrameAt(callers, i) IN
         IF fr.file = "logger.go" THEN WalkFrom(callers, traceType, i + 1)
         ELSE IF fr.file = "testing.go" THEN <<>>
         ELSE IF traceType = TRACE_TYPE_ONE THEN OutputLine(fr)
         ELSE OutputLine(fr) \o WalkFrom(callers, traceType, i + 1)

\* LOGGER_LINE_REPLACER = strings.NewReplacer(": ", "", " ", "", "\n", ", ")
RECURSIVE LOGGER_LINE_REPLACER(_)
LOGGER_LINE_REPLACER(s) ==
    IF s = <<>> THEN <<>>
    ELSE IF Len(s) >= 2 /\ s[1] = ":" /\ s[2] = SP
         THEN LOGGER_LINE_REPLACER(SubSeq(s, 3, Len(s)))
    ELSE IF s[1] = SP THEN LOGGER_LINE_REPLACER(Tail(s))
    ELSE IF s[1] = NL THEN <<",", SP>> \o LOGGER_LINE_REPLACER(Tail(s))
    ELSE <<s[1]>> \o LOGGER_LINE_REPLACER(Tail(s))

\* strings.TrimRight(s, cutset)
RECURSIVE TrimRight(_, _)
TrimRight(s, cutset) ==
    IF s # <<>> /\ s[Len(s)] \in cutset
    THEN TrimRight(SubSeq(s, 1, Len(s) - 1), cutset)
    ELSE s

\* line := strings.TrimRight(LOGGER_LINE_REPLACER.Replace(lineBuf.String()), ", ")
LocationField(callers, traceType) ==
    TrimRight(LOGGER_LINE_REPLACER(WalkFrom(callers, traceType, 2)), {",", SP})

\* a Go string that is one token, or empty
Str(t) == IF t = "" THEN <<>> ELSE <<t>>

\* prefix := fmt.Sprintf("%s: %s %s %s: ", typeLog, time.Now().Format(RFC3339), HOST, line)
MessagePrefix(typeLog, now, host, line) ==
    Str(typeLog) \o <<":", SP>> \o Str(now) \o <<SP>> \o Str(host) \o <<SP>>
        \o line \o <<":", SP>>

\* logger.go:231-237: the printed parts, MESSAGE_SEPARATOR before every part
\* but the first
JoinParts(err) ==
    Flatten([i \in 1..Len(err) |->
                (IF i > 1 THEN MESSAGE_SEPARATOR ELSE <<>>) \o Sprint(err[i])])

\* log.Logger.Output(0, s) with flags 0: the prefix, s, and a newline when s
\* does not end with one
LogOutput(prefix, s) ==
    prefix \o s \o (IF s = <<>> \/ s[Len(s)] # NL THEN <<NL>> ELSE <<>>)

\* makeMessage (logger.go:198-244), with the host name in use (HOST after
\* logger.go:200-202) and the time of the call.
MakeMessage(typeLog, err, traceType, callers, host, now) ==
    LET line == LocationField(callers, traceType)
        prefix == MessagePrefix(typeLog, now, host, line)
        msg == JoinParts(err)
    IN  DropNewlines(LogOutput(prefix, MessageReplace(msg)))

\* if len(HOST) == 0 { HOST, _ = os.Hostname() }: the host name after the
\* check, when os.Hostname returns name ("" with an error)
ResolveHostAlways(cached, name) == name
ResolveHost(cached, name) == IF cached = "" THEN name ELSE cached

(***************************************************************************)
(* The state.                                                              *)
(*   providers       Logger.providers: sink ID -> registered sink          *)
(*   logProviders, errorProviders, fatalProviders, debugProviders          *)
(*                   the four routing lists of sink IDs                    *)
(*   level           Logger.level                                          *)
(*   traceType       Logger.traceType                                      *)
(*   HOST            the package variable HOST, the cached host name       *)
(*   reportedID      what each sink object's GetID() returns               *)
(*   exited          the process has ended in os.Exit                      *)
(*   last            the last call: its name, its inputs, and what the     *)
(*                   caller and the sinks observed of it                   *)
(*   threads         the goroutines that build a message concurrently:     *)
(*                   where each one is in makeMessage and what it has read *)
(*   tg              the Telegram sink's sender goroutine: its arguments,  *)
(*                   its position in the recipients, the requests issued   *)
(***************************************************************************)
VARIABLES providers, logProviders, errorProviders, fatalProviders,
          debugProviders, level, traceType, HOST, reportedID, exited, last,
          threads, tg

lists == <<logProviders, errorProviders, fatalProviders, debugProviders>>
config == <<providers, logProviders, errorProviders, fatalProviders,
            debugProviders, level, traceType>>
vars == <<providers, logProviders, errorProviders, fatalProviders,
          debugProviders, level, traceType, HOST, reportedID, exited, last,
          threads, tg>>

\* The record of a call.  ids: the IDs given to an attach call; val: the
\* integer given to a setter; sink: the sink given to RegisterProvider;
\* tag, parts, callers, now: the inputs of a message build (callers of a
\* logging call: the frames above the call, innermost first); msgs: the
\* messages built; calls: the sink operations invoked, in order; err: an
\* error was returned; panicked: the call ended in a panic that reached
\* its caller; status: the exit status when the call ended the process;
\* resolved: the call asked the system for the host name (os.Hostname).
NoCall ==
    [op |-> "NewLogger", ids |-> <<>>, val |-> 0, sink |-> NoSink,
     tag |-> "", parts |-> <<>>, callers |-> <<>>, now |-> "",
     msgs |-> <<>>, calls |-> <<>>, err |-> FALSE, panicked |-> FALSE,
     status |-> 0, resolved |-> FALSE]

\* no goroutine builds a message; the Telegram sender has not been started
NoThreads == <<>>
NoSender == [running |-> FALSE]

\* The IDs of the sink objects: two sinks with different IDs, or two sinks
\* that report the same ID.  A sink's ID is fixed when the sink is made:
\* TelegramProvider.GetID returns a constant, Provider.GetID prints a field
\* that nothing assigns after construction.
SinkIDs == {[p \in Sinks |-> IF p = "s1" THEN "a" ELSE id] : id \in IDs}

\* NewLogger (logger.go:40-44): an empty registry, zero values elsewhere.
Init ==
    /\ providers = [id \in IDs |-> NoSink]
    /\ logProviders = <<>>
    /\ errorProviders = <<>>
    /\ fatalProviders = <<>>
    /\ debugProviders = <<>>
    /\ level = 0
    /\ traceType = 0
    /\ HOST = ""
    /\ reportedID \in SinkIDs
    /\ exited = FALSE
    /\ last = NoCall
    /\ threads = NoThreads
    /\ tg = NoSender

(***************************************************************************)
(* Configuration.                                                          *)
(***************************************************************************)
\* SetTraceType (logger.go:46-54)
SetTraceTypeAlways(val) ==
    /\ ~exited
    /\ traceType' = val
    /\ last' = [NoCall EXCEPT !.op = "SetTraceType", !.val = val]
    /\ UNCHANGED <<providers, lists, level, HOST, reportedID, exited>>
    /\ UNCHANGED <<threads, tg>>
SetTraceType(val) ==
    /\ ~exited
    /\ IF val # TRACE_TYPE_ONE /\ val # TRACE_TYPE_ANY
       THEN /\ last' = [NoCall EXCEPT !.op = "SetTraceType", !.val = val,
                                      !.err = TRUE]
            /\ UNCHANGED traceType
       ELSE /\ traceType' = val
            /\ last' = [NoCall EXCEPT !.op = "SetTraceType", !.val = val]
    /\ UNCHANGED <<providers, lists, level, HOST, reportedID, exited>>
    /\ UNCHANGED <<threads, tg>>

\* SetLevel (logger.go:56-58)
SetLevel(lv) ==
    /\ ~exited
    /\ level' = lv
    /\ last' = [NoCall EXCEPT !.op = "SetLevel", !.val = lv]
    /\ UNCHANGED <<providers, lists, traceType, HOST, reportedID, exited>>
    /\ UNCHANGED <<threads, tg>>

\* RegisterProvider (logger.go:60-62): l.providers[p.GetID()] = &p
RegisterProviderKeepsFirst(p) ==
    /\ ~exited
    /\ providers' = IF providers[reportedID[p]] = NoSink
                    THEN [providers EXCEPT ![reportedID[p]] = p]
                    ELSE providers
    /\ last' = [NoCall EXCEPT !.op = "RegisterProvider", !.sink = p]
    /\ UNCHANGED <<lists, level, traceType, HOST, reportedID, exited>>
    /\ UNCHANGED <<threads, tg>>
RegisterProvider(p) ==
    /\ ~exited
    /\ providers' = [providers EXCEPT ![reportedID[p]] = p]
    /\ last' = [NoCall EXCEPT !.op = "RegisterProvider", !.sink = p]
    /\ UNCHANGED <<lists, level, traceType, HOST, reportedID, exited>>
    /\ UNCHANGED <<threads, tg>>

(***************************************************************************)
(* addProvider (logger.go:80-115).                                         *)
(***************************************************************************)
\* alreadyRegistred (logger.go:96-103)
AlreadyRegistredNever(id, idsList) == FALSE
alreadyRegistred(id, idsList) == \E i \in 1..Len(idsList) : idsList[i] = id

\* the loop of logger.go:105-114 from argument i on, over the list so far
RECURSIVE AddLoopPrepend(_, _, _, _)
AddLoopPrepend(list, providersIDs, i, provs) ==
    IF i > Len(providersIDs) THEN list
    ELSE LET id == providersIDs[i]
             provider == provs[id]
         IN  IF provider # NoSink /\ ~alreadyRegistred(reportedID[provider], list)
             THEN AddLoopPrepend(<<reportedID[provider]>> \o list,
                                 providersIDs, i + 1, provs)
             ELSE AddLoopPrepend(list, providersIDs, i + 1, provs)
RECURSIVE AddLoopStopsAtUnknown(_, _, _, _)
AddLoopStopsAtUnknown(list, providersIDs, i, provs) ==
    IF i > Len(providersIDs) THEN list
    ELSE LET id == providersIDs[i]
             provider == provs[id]
         IN  IF provider = NoSink THEN list
             ELSE IF ~alreadyRegistred(reportedID[provider], list)
             THEN AddLoopStopsAtUnknown(Append(list, reportedID[provider]),
                                        providersIDs, i + 1, provs)
             ELSE AddLoopStopsAtUnknown(list, providersIDs, i + 1, provs)
RECURSIVE AddLoopAppendsUnknown(_, _, _, _)
AddLoopAppendsUnknown(list, providersIDs, i, provs) ==
    IF i > Len(providersIDs) THEN list
    ELSE LET id == providersIDs[i]
         IN  IF ~alreadyRegistred(id, list)
             THEN AddLoopAppendsUnknown(Append(list, id), providersIDs, i + 1, provs)
             ELSE AddLoopAppendsUnknown(list, providersIDs, i + 1, provs)
RECURSIVE AddLoop(_, _, _, _)
AddLoop(list, providersIDs, i, provs) ==
    IF i > Len(providersIDs) THEN list
    ELSE LET id == providersIDs[i]
             provider == provs[id]
         IN  IF provider # NoSink
             THEN LET pID == reportedID[provider]
                  IN  IF ~alreadyRegistred(pID, list)
                      THEN AddLoop(Append(list, pID), providersIDs, i + 1, provs)
                      ELSE AddLoop(list, providersIDs, i + 1, provs)
             ELSE AddLoop(list, providersIDs, i + 1, provs)

addProvider(list, providersIDs) == AddLoop(list, providersIDs, 1, providers)

\* AddLogProvider (logger.go:64-66)
AddLogProvider(provIDs) ==
    /\ ~exited
    /\ logProviders' = addProvider(logProviders, provIDs)
    /\ last' = [NoCall EXCEPT !.op = "AddLogProvider", !.ids = provIDs]
    /\ UNCHANGED <<providers, errorProviders, fatalProviders, debugProviders,
                   level, traceType, HOST, reportedID, exited>>
    /\ UNCHANGED <<threads, tg>>

\* AddErrorProvider (logger.go:68-70)
AddErrorProvider(provIDs) ==
    /\ ~exited
    /\ errorProviders' = addProvider(errorProviders, provIDs)
    /\ last' = [NoCall EXCEPT !.op = "AddErrorProvider", !.ids = provIDs]
    /\ UNCHANGED <<providers, logProviders, fatalProviders, debugProviders,
                   level, traceType, HOST, reportedID, exited>>
    /\ UNCHANGED <<threads, tg>>

\* AddFatalProvider (logger.go:72-74)
AddFatalProvider(provIDs) ==
    /\ ~exited
    /\ fatalProviders' = addProvider(fatalProviders, provIDs)
    /\ last' = [NoCall EXCEPT !.op = "AddFatalProvider", !.ids = provIDs]
    /\ UNCHANGED <<providers, logProviders, errorProviders, debugProviders,
                   level, traceType, HOST, reportedID, exited>>
    /\ UNCHANGED <<threads, tg>>

\* AddDebugProvider (logger.go:76-78)
AddDebugProviderIntoLog(provIDs) ==
    /\ ~exited
    /\ debugProviders' = addProvider(debugProviders, provIDs)
    /\ logProviders' = addProvider(logProviders, provIDs)
    /\ last' = [NoCall EXCEPT !.op = "AddDebugProvider", !.ids = provIDs]
    /\ UNCHANGED <<providers, errorProviders, fatalProviders,
                   level, traceType, HOST, reportedID, exited>>
    /\ UNCHANGED <<threads, tg>>
AddDebugProvider(provIDs) ==
    /\ ~exited
    /\ debugProviders' = addProvider(debugProviders, provIDs)
    /\ last' = [NoCall EXCEPT !.op = "AddDebugProvider", !.ids = provIDs]
    /\ UNCHANGED <<providers, logProviders, errorProviders, fatalProviders,
                   level, traceType, HOST, reportedID, exited>>
    /\ UNCHANGED <<threads, tg>>

\* the argument lists of the attach calls of SpecConfig, and those of Spec
ArgLists == SeqsUpTo(IDs, MaxArgs)
ShortArgLists == SeqsUpTo(IDs, 1)

(***************************************************************************)
(* Dispatch.  A sink operation returns or panics (Provider.Log, Debug,     *)
(* Error and Fatal panic); bad is the set of sinks whose operation panics  *)
(* in this call.  A panic is not recovered by the logger: it ends the loop *)
(* and the call.                                                           *)
(***************************************************************************)
SinkCall(p, sinkOp, msg) == [sink |-> p, op |-> sinkOp, msg |-> msg]

\* the loops of logger.go:130-135, 145-150, 167-172, 181-186, from entry i on
DispatchLoopFirstOnly(list, i, sinkOp, msg, bad) ==
    IF i > Len(list) \/ i > 1 THEN [calls |-> <<>>, panicked |-> FALSE]
    ELSE LET p == providers[list[i]] IN
         IF p = NoSink THEN [calls |-> <<>>, panicked |-> FALSE]
         ELSE [calls |-> <<SinkCall(p, sinkOp, msg)>>, panicked |-> p \in bad]
RECURSIVE DispatchLoopRecovers(_, _, _, _, _)
DispatchLoopRecovers(list, i, sinkOp, msg, bad) ==
    IF i > Len(list) THEN [calls |-> <<>>, panicked |-> FALSE]
    ELSE LET p == providers[list[i]]
             rest == DispatchLoopRecovers(list, i + 1, sinkOp, msg, bad)
         IN  IF p # NoSink
             THEN [calls |-> <<SinkCall(p, sinkOp, msg)>> \o rest.calls,
                   panicked |-> FALSE]
             ELSE rest
RECURSIVE DispatchLoop(_, _, _, _, _)
DispatchLoop(list, i, sinkOp, msg, bad) ==
    IF i > Len(list) THEN [calls |-> <<>>, panicked |-> FALSE]
    ELSE LET pID == list[i]
             p == providers[pID]
         IN  IF p # NoSink
             THEN IF p \in bad
                  THEN [calls |-> <<SinkCall(p, sinkOp, msg)>>, panicked |-> TRUE]
                  ELSE LET rest == DispatchLoop(list, i + 1, sinkOp, msg, bad)
                       IN  [calls |-> <<SinkCall(p, sinkOp, msg)>> \o rest.calls,
                            panicked |-> rest.panicked]
             ELSE DispatchLoop(list, i + 1, sinkOp, msg, bad)

\* What a logging call does: the messages it builds, the sink operations it
\* invokes, whether a panic ends it.
Suppressed == [msgs |-> <<>>, calls |-> <<>>, panicked |-> FALSE]

Emitted(msg, d) == [msgs |-> <<msg>>, calls |-> d.calls, panicked |-> d.panicked]

\* the host name makeMessage uses when os.Hostname returns name
HostUsed(name) == ResolveHost(HOST, name)

\* Log (logger.go:125-136), called from the frames above
LogUngated(messageParts, above, name, now, bad) ==
    LET msg == MakeMessage("LOG", messageParts, traceType,
                           <<Frame("logger.go", "129")>> \o above,
                           HostUsed(name), now)
    IN  Emitted(msg, DispatchLoop(logProviders, 1, "Log", msg, bad))
LogBody(messageParts, above, name, now, bad) ==
    IF level < LEVEL_INFO THEN Suppressed
    ELSE LET msg == MakeMessage("LOG", messageParts, traceType,
                                <<Frame("logger.go", "129")>> \o above,
                                HostUsed(name), now)
         IN  Emitted(msg, DispatchLoop(logProviders, 1, "Log", msg, bad))

\* Logf (logger.go:117-123)
LogfBody(format, params, above, name, now, bad) ==
    IF level < LEVEL_INFO THEN Suppressed
    ELSE LogBody(<<StrPart(Sprintf(format, params))>>,
                 <<Frame("logger.go", "122")>> \o above, name, now, bad)

\* Error (logger.go:142-151)
ErrorGated(messageParts, above, name, now, bad) ==
    IF level < LEVEL_INFO THEN Suppressed
    ELSE LET msg == MakeMessage("ERROR", messageParts, traceType,
                                <<Frame("logger.go", "144")>> \o above,
                                HostUsed(name), now)
         IN  Emitted(msg, DispatchLoop(errorProviders, 1, "Error", msg, bad))
ErrorBody(messageParts, above, name, now, bad) ==
    LET msg == MakeMessage("ERROR", messageParts, traceType,
                           <<Frame("logger.go", "144")>> \o above,
                           HostUsed(name), now)
    IN  Emitted(msg, DispatchLoop(errorProviders, 1, "Error", msg, bad))

\* Errorf (logger.go:138-140)
ErrorfBody(format, params, above, name, now, bad) ==
    ErrorBody(<<StrPart(Sprintf(format, params))>>,
              <<Frame("logger.go", "139")>> \o above, name, now, bad)

\* Debug (logger.go:161-173)
DebugBody(messageParts, above, name, now, bad) ==
    IF level < LEVEL_DEBUG THEN Suppressed
    ELSE LET msg == MakeMessage("DEBUG", messageParts, traceType,
                                <<Frame("logger.go", "166")>> \o above,
                                HostUsed(name), now)
         IN  Emitted(msg, DispatchLoop(debugProviders, 1, "Debug", msg, bad))

\* Debugf (logger.go:153-159)
DebugfBody(format, params, above, name, now, bad) ==
    IF level < LEVEL_DEBUG THEN Suppressed
    ELSE DebugBody(<<StrPart(Sprintf(format, params))>>,
                   <<Frame("logger.go", "158")>> \o above, name, now, bad)

\* Fatal (logger.go:179-186), up to the end of the loop
FatalBody(messageParts, above, name, now, bad) ==
    LET msg == MakeMessage("FATAL", messageParts, traceType,
                           <<Frame("logger.go", "180")>> \o above,
                           HostUsed(name), now)
    IN  Emitted(msg, DispatchLoop(fatalProviders, 1, "Fatal", msg, bad))

\* Fatalf (logger.go:175-177)
FatalfBody(format, params, above, name, now, bad) ==
    FatalBody(<<StrPart(Sprintf(format, params))>>,
              <<Frame("logger.go", "176")>> \o above, name, now, bad)

(***************************************************************************)
(* The logging calls as steps.  exits: the call ends in os.Exit(1)         *)
(* (logger.go:188), which is reached only when no sink operation panicked. *)
(***************************************************************************)
FinishDrainsLog(apiName, r, above, name, exits) ==
    /\ ~exited
    /\ last' = [NoCall EXCEPT !.op = apiName, !.callers = above,
                              !.msgs = r.msgs,
                              !.calls = r.calls, !.panicked = r.panicked,
                              !.status = IF exits /\ ~r.panicked THEN 1 ELSE 0,
                              !.resolved = (r.msgs # <<>> /\ HOST = "")]
    /\ HOST' = IF r.msgs # <<>> THEN HostUsed(name) ELSE HOST
    /\ exited' = (exits /\ ~r.panicked)
    /\ logProviders' = IF r.calls # <<>> THEN <<>> ELSE logProviders
    /\ UNCHANGED <<providers, errorProviders, fatalProviders, debugProviders,
                   level, traceType, reportedID>>
    /\ UNCHANGED <<threads, tg>>
Finish(apiName, r, above, name, exits) ==
    /\ ~exited
    /\ last' = [NoCall EXCEPT !.op = apiName, !.callers = above,
                              !.msgs = r.msgs,
                              !.calls = r.calls, !.panicked = r.panicked,
                              !.status = IF exits /\ ~r.panicked THEN 1 ELSE 0,
                              !.resolved = (r.msgs # <<>> /\ HOST = "")]
    /\ HOST' = IF r.msgs # <<>> THEN HostUsed(name) ELSE HOST
    /\ exited' = (exits /\ ~r.panicked)
    /\ UNCHANGED <<config, reportedID>>
    /\ UNCHANGED <<threads, tg>>

Log(messageParts, above, name, now, bad) ==
    Finish("Log", LogBody(messageParts, above, name, now, bad), above, name, FALSE)

Logf(format, params, above, name, now, bad) ==
    Finish("Logf", LogfBody(format, params, above, name, now, bad), above, name, FALSE)

Error(messageParts, above, name, now, bad) ==
    Finish("Error", ErrorBody(messageParts, above, name, now, bad), above, name, FALSE)

Errorf(format, params, above, name, now, bad) ==
    Finish("Errorf", ErrorfBody(format, params, above, name, now, bad), above, name, FALSE)

Debug(messageParts, above, name, now, bad) ==
    Finish("Debug", DebugBody(messageParts, above, name, now, bad), above, name, FALSE)

Debugf(format, params, above, name, now, bad) ==
    Finish("Debugf", DebugfBody(format, params, above, name, now, bad), above, name, FALSE)

FatalReturns(messageParts, above, name, now, bad) ==
    Finish("Fatal", FatalBody(messageParts, above, name, now, bad), above, name, FALSE)
Fatal(messageParts, above, name, now, bad) ==
    Finish("Fatal", FatalBody(messageParts, above, name, now, bad), above, name, TRUE)

Fatalf(format, params, above, name, now, bad) ==
    Finish("Fatalf", FatalfBody(format, params, above, name, now, bad), above, name, TRUE)

(***************************************************************************)
(* The inputs of the logging calls.                                        *)
(***************************************************************************)
\* message parts of a plain call
CallParts == {<<StrPart(<<"text">>)>>}
\* format and parameters of a formatted call
CallFormats == {<<"format:", SP, "%v">>}
CallParams == {<<IntPart(10)>>}
\* the frames above the logging call, innermost first
CallStacks == {<<Frame("main.go", "10"), Frame("proc.go", "250")>>}
\* what os.Hostname returns
HostNames == {"myhost"}
\* the formatted time of the call
Times == {"2016-11-21T14:50:23+03:00"}

\* the sinks whose operation panics in a call: none, or one of them
Panics == {{}} \cup {{p} : p \in Sinks}

LogStep ==
    \E messageParts \in CallParts, above \in CallStacks, name \in HostNames,
       now \in Times, bad \in Panics :
        Log(messageParts, above, name, now, bad)
LogfStep ==
    \E format \in CallFormats, params \in CallParams, above \in CallStacks,
       name \in HostNames, now \in Times, bad \in Panics :
        Logf(format, params, above, name, now, bad)
ErrorStep ==
    \E messageParts \in CallParts, above \in CallStacks, name \in HostNames,
       now \in Times, bad \in Panics :
        Error(messageParts, above, name, now, bad)
ErrorfStep ==
    \E format \in CallFormats, params \in CallParams, above \in CallStacks,
       name \in HostNames, now \in Times, bad \in Panics :
        Errorf(format, params, above, name, now, bad)
DebugStep ==
    \E messageParts \in CallParts, above \in CallStacks, name \in HostNames,
       now \in Times, bad \in Panics :
        Debug(messageParts, above, name, now, bad)
DebugfStep ==
    \E format \in CallFormats, params \in CallParams, above \in CallStacks,
       name \in HostNames, now \in Times, bad \in Panics :
        Debugf(format, params, above, name, now, bad)
FatalStep ==
    \E messageParts \in CallParts, above \in CallStacks, name \in HostNames,
       now \in Times, bad \in Panics :
        Fatal(messageParts, above, name, now, bad)
FatalfStep ==
    \E format \in CallFormats, params \in CallParams, above \in CallStacks,
       name \in HostNames, now \in Times, bad \in Panics :
        Fatalf(format, params, above, name, now, bad)

RegisterStep == \E p \in Sinks : RegisterProvider(p)
AddLogStep == \E provIDs \in ArgLists : AddLogProvider(provIDs)
AddErrorStep == \E provIDs \in ArgLists : AddErrorProvider(provIDs)
AddFatalStep == \E provIDs \in ArgLists : AddFatalProvider(provIDs)
AddDebugStep == \E provIDs \in ArgLists : AddDebugProvider(provIDs)
AddLogShortStep == \E provIDs \in ShortArgLists : AddLogProvider(provIDs)
AddErrorShortStep == \E provIDs \in ShortArgLists : AddErrorProvider(provIDs)
AddFatalShortStep == \E provIDs \in ShortArgLists : AddFatalProvider(provIDs)
AddDebugShortStep == \E provIDs \in ShortArgLists : AddDebugProvider(provIDs)
SetLevelStep == \E lv \in Levels : SetLevel(lv)
SetTraceTypeStep == \E val \in TraceValues : SetTraceType(val)

\* A direct call of makeMessage (logger.go:198-244), as TestMessage makes it:
\* last holds the call and its arguments, the step runs it to its return.
MessageCall(typeLog, err, trace, callers, now) ==
    [NoCall EXCEPT !.op = "call makeMessage", !.tag = typeLog, !.parts = err,
                   !.val = trace, !.callers = callers, !.now = now]

makeMessage(name) ==
    /\ ~exited
    /\ last.op = "call makeMessage"
    /\ last' = [last EXCEPT
                  !.op = "makeMessage",
                  !.msgs = <<MakeMessage(last.tag, last.parts, last.val,
                                         last.callers, HostUsed(name), last.now)>>,
                  !.resolved = (HOST = "")]
    /\ HOST' = HostUsed(name)
    /\ UNCHANGED <<config, reportedID, exited>>
    /\ UNCHANGED <<threads, tg>>

\* The inputs of direct message builds.
BuildTags == {"Err", "LOG"}
BuildPartValues ==
    {StrPart(<<>>), StrPart(<<"text1">>), IntPart(10),
     StrPart(<<"line1", NL, "line2">>), StrPart(<<"line3", CR, NL, "line4">>),
     StrPart(<<NL>>), StrPart(<<CR>>), StrPart(<<NL, NL>>),
     StrPart(<<"p", NL, NL, "q">>),
     StrPart(<<"a", SP, "b">>), StrPart(<<TAB, "c", NL>>)}
BuildParts == SeqsUpTo(BuildPartValues, MaxParts)
BuildStacks ==
    {<<>>,
     <<Frame("logger_test.go", "57"), Frame("testing.go", "610")>>,
     <<Frame("logger.go", "129"), Frame("main.go", "10"), Frame("proc.go", "250")>>}

BuildCalls ==
    {MessageCall(typeLog, err, trace, callers, now) :
        typeLog \in BuildTags, err \in BuildParts,
        trace \in {TRACE_TYPE_ONE, TRACE_TYPE_ANY}, callers \in BuildStacks,
        now \in Times}

makeMessageStep == \E name \in HostNames : makeMessage(name)

\* The state in which makeMessage has been called with some arguments.
InitMsg ==
    /\ providers = [id \in IDs |-> NoSink]
    /\ logProviders = <<>>
    /\ errorProviders = <<>>
    /\ fatalProviders = <<>>
    /\ debugProviders = <<>>
    /\ level = 0
    /\ traceType = 0
    /\ HOST = ""
    /\ reportedID \in SinkIDs
    /\ exited = FALSE
    /\ last \in BuildCalls
    /\ threads = NoThreads
    /\ tg = NoSender

(***************************************************************************)
(* The specifications.                                                     *)
(*   Spec        registration, attachment of one ID at a time, the level   *)
(*               setter and the eight logging calls                        *)
(*   SpecConfig  registration, attachment of several IDs at a time and the *)
(*               two setters                                               *)
(*   SpecAttach  registration and attachment of several IDs at a time      *)
(*   SpecMsg     one message build, for every argument list of BuildCalls  *)
(* and, further down,                                                      *)
(*   SpecTrace   the logging calls from different call stacks, with the    *)
(*               two setters                                               *)
(*   SpecPanic   Spec with one sink that always panics                     *)
(*   SpecHost    message builds with os.Hostname failing or not            *)
(*   SpecRace    concurrent message builds                                 *)
(*   SpecTelegram  the Telegram sink's sender                              *)
(***************************************************************************)
Next ==
    \/ RegisterStep
    \/ AddLogShortStep
    \/ AddErrorShortStep
    \/ AddFatalShortStep
    \/ AddDebugShortStep
    \/ SetLevelStep
    \/ LogStep
    \/ LogfStep
    \/ ErrorStep
    \/ ErrorfStep
    \/ DebugStep
    \/ DebugfStep
    \/ FatalStep
    \/ FatalfStep

Spec == Init /\ [][Next]_vars

NextConfig ==
    \/ RegisterStep
    \/ AddLogStep
    \/ AddErrorStep
    \/ AddFatalStep
    \/ AddDebugStep
    \/ SetLevelStep
    \/ SetTraceTypeStep

SpecConfig == Init /\ [][NextConfig]_vars

NextAttach ==
    \/ RegisterStep
    \/ AddLogStep
    \/ AddErrorStep
    \/ AddFatalStep
    \/ AddDebugStep

SpecAttach == Init /\ [][NextAttach]_vars

NextMsg == makeMessageStep

SpecMsg == InitMsg /\ [][NextMsg]_vars

(***************************************************************************)
(* Logging calls from different call stacks, in both trace modes.  No sink *)
(* is registered: the calls build their message and dispatch to nobody.    *)
(***************************************************************************)
\* The frames above the logging call, innermost first, down to the frame the
\* goroutine started in (runtime.goexit, asm_amd64.s):
\*   a call from main.main; a call from the closure of a test function; a call
\*   at the bottom of a chain of six functions; a call made by a go
\*   statement; a call from a file named logger.go of the application, itself
\*   called from main.main; a call from main.main through a function of a file
\*   named logger.go of the application.
TraceStacks ==
    {<<Frame("main.go", "10"), Frame("proc.go", "250"),
       Frame("asm_amd64.s", "1700")>>,
     <<Frame("logger_test.go", "124"), Frame("logger_test.go", "138"),
       Frame("testing.go", "610"), Frame("asm_amd64.s", "1700")>>,
     <<Frame("store.go", "31"), Frame("handler.go", "77"),
       Frame("router.go", "12"), Frame("server.go", "45"),
       Frame("main.go", "20"), Frame("proc.go", "250"),
       Frame("asm_amd64.s", "1700")>>,
     <<Frame("asm_amd64.s", "1700")>>,
     <<Frame("logger.go", "42"), Frame("main.go", "10"),
       Frame("proc.go", "250"), Frame("asm_amd64.s", "1700")>>,
     <<Frame("audit.go", "7"), Frame("logger.go", "42"), Frame("main.go", "10"),
       Frame("proc.go", "250"), Frame("asm_amd64.s", "1700")>>}

LogTraceStep ==
    \E messageParts \in CallParts, above \in TraceStacks, name \in HostNames,
       now \in Times :
        Log(messageParts, above, name, now, {})
LogfTraceStep ==
    \E format \in CallFormats, params \in CallParams, above \in TraceStacks,
       name \in HostNames, now \in Times :
        Logf(format, params, above, name, now, {})
ErrorTraceStep ==
    \E messageParts \in CallParts, above \in TraceStacks, name \in HostNames,
       now \in Times :
        Error(messageParts, above, name, now, {})
ErrorfTraceStep ==
    \E format \in CallFormats, params \in CallParams, above \in TraceStacks,
       name \in HostNames, now \in Times :
        Errorf(format, params, above, name, now, {})
DebugTraceStep ==
    \E messageParts \in CallParts, above \in TraceStacks, name \in HostNames,
       now \in Times :
        Debug(messageParts, above, name, now, {})
DebugfTraceStep ==
    \E format \in CallFormats, params \in CallParams, above \in TraceStacks,
       name \in HostNames, now \in Times :
        Debugf(format, params, above, name, now, {})
FatalTraceStep ==
    \E messageParts \in CallParts, above \in TraceStacks, name \in HostNames,
       now \in Times :
        Fatal(messageParts, above, name, now, {})
FatalfTraceStep ==
    \E format \in CallFormats, params \in CallParams, above \in TraceStacks,
       name \in HostNames, now \in Times :
        Fatalf(format, params, above, name, now, {})

NextTrace ==
    \/ SetLevelStep
    \/ SetTraceTypeStep
    \/ LogTraceStep
    \/ LogfTraceStep
    \/ ErrorTraceStep
    \/ ErrorfTraceStep
    \/ DebugTraceStep
    \/ DebugfTraceStep
    \/ FatalTraceStep
    \/ FatalfTraceStep

SpecTrace == Init /\ [][NextTrace]_vars

(***************************************************************************)
(* Logging through a sink whose operations always panic, as those of the   *)
(* Provider of the tests do (part_000:187-205), and one whose operations   *)
(* never do.                                                               *)
(***************************************************************************)
PanickingSinks == {"s1"}

LogPanicStep ==
    \E messageParts \in CallParts, above \in CallStacks, name \in HostNames,
       now \in Times :
        Log(messageParts, above, name, now, PanickingSinks)
LogfPanicStep ==
    \E format \in CallFormats, params \in CallParams, above \in CallStacks,
       name \in HostNames, now \in Times :
        Logf(format, params, above, name, now, PanickingSinks)
ErrorPanicStep ==
    \E messageParts \in CallParts, above \in CallStacks, name \in HostNames,
       now \in Times :
        Error(messageParts, above, name, now, PanickingSinks)
ErrorfPanicStep ==
    \E format \in CallFormats, params \in CallParams, above \in CallStacks,
       name \in HostNames, now \in Times :
        Errorf(format, params, above, name, now, PanickingSinks)
DebugPanicStep ==
    \E messageParts \in CallParts, above \in CallStacks, name \in HostNames,
       now \in Times :
        Debug(messageParts, above, name, now, PanickingSinks)
DebugfPanicStep ==
    \E format \in CallFormats, params \in CallParams, above \in CallStacks,
       name \in HostNames, now \in Times :
        Debugf(format, params, above, name, now, PanickingSinks)
FatalPanicStep ==
    \E messageParts \in CallParts, above \in CallStacks, name \in HostNames,
       now \in Times :
        Fatal(messageParts, above, name, now, PanickingSinks)
FatalfPanicStep ==
    \E format \in CallFormats, params \in CallParams, above \in CallStacks,
       name \in HostNames, now \in Times :
        Fatalf(format, params, above, name, now, PanickingSinks)

NextPanic ==
    \/ RegisterStep
    \/ AddLogShortStep
    \/ AddErrorShortStep
    \/ AddFatalShortStep
    \/ AddDebugShortStep
    \/ SetLevelStep
    \/ LogPanicStep
    \/ LogfPanicStep
    \/ ErrorPanicStep
    \/ ErrorfPanicStep
    \/ DebugPanicStep
    \/ DebugfPanicStep
    \/ FatalPanicStep
    \/ FatalfPanicStep

SpecPanic == Init /\ [][NextPanic]_vars

(***************************************************************************)
(* Message builds one after the other, os.Hostname returning a name or     *)
(* failing.  Only calls that are never suppressed are made, so every step  *)
(* is a build.                                                             *)
(***************************************************************************)
\* what os.Hostname returns: a name, or "" with an error
HostResults == {"", "myhost", "otherhost"}

ErrorHostStep ==
    \E messageParts \in CallParts, above \in TraceStacks, name \in HostResults,
       now \in Times :
        Error(messageParts, above, name, now, {})
ErrorfHostStep ==
    \E format \in CallFormats, params \in CallParams, above \in TraceStacks,
       name \in HostResults, now \in Times :
        Errorf(format, params, above, name, now, {})
FatalHostStep ==
    \E messageParts \in CallParts, above \in TraceStacks, name \in HostResults,
       now \in Times :
        Fatal(messageParts, above, name, now, {})
FatalfHostStep ==
    \E format \in CallFormats, params \in CallParams, above \in TraceStacks,
       name \in HostResults, now \in Times :
        Fatalf(format, params, above, name, now, {})

NextHost ==
    \/ ErrorHostStep
    \/ ErrorfHostStep
    \/ FatalHostStep
    \/ FatalfHostStep

SpecHost == Init /\ [][NextHost]_vars

(***************************************************************************)
(* Concurrent message builds.  Several goroutines run makeMessage while    *)
(* the cache HOST is empty; each goes through the check of logger.go:200,  *)
(* the resolution and the assignment of logger.go:201, and the read of     *)
(* HOST for the prefix (logger.go:227).  Nothing orders these accesses.    *)
(* A Go string is two words, the data pointer and the length, and the      *)
(* assignment stores them one after the other: between StoreBegin and      *)
(* StoreEnd of a goroutine the variable is half-written, and a read by     *)
(* another goroutine is a data race that yields the old value, the new     *)
(* value, or a pointer and a length that do not belong together.           *)
(*   threads[t].pc     where goroutine t is: "check", "resolve", "store",  *)
(*                     "storing", "format", "done"                         *)
(*   threads[t].name   what os.Hostname returned to t                      *)
(*   threads[t].host   the host name t put into its message                *)
(***************************************************************************)
\* the number of goroutines building a message
MaxThreads == 3
Threads == 1..MaxThreads

\* what a goroutine reads of a string whose two words do not belong
\* together: the new length with the old (nil) data pointer
Torn == "<invalid string>"

\* the goroutines other than t that are in the middle of their assignment
Storing(t) == {u \in Threads \ {t} : threads[u].pc = "storing"}

\* what len(HOST) may be found to describe when t reads it: the value in
\* place, or the value a goroutine is storing
LenReads(t) == {HOST} \cup {threads[u].name : u \in Storing(t)}

\* what HOST may be found to hold when t reads the whole string
StringReads(t) ==
    {HOST} \cup {threads[u].name : u \in Storing(t)}
           \cup {Torn : u \in {v \in Storing(t) : HOST = "" /\ threads[v].name # ""}}

\* if len(HOST) == 0 (logger.go:200)
CheckHost(t, seen) ==
    /\ threads[t].pc = "check"
    /\ seen \in LenReads(t)
    /\ threads' = [threads EXCEPT ![t].pc = IF seen = "" THEN "resolve" ELSE "format"]
    /\ UNCHANGED <<config, HOST, reportedID, exited, last, tg>>

\* os.Hostname() (logger.go:201)
Hostname(t, name) ==
    /\ threads[t].pc = "resolve"
    /\ threads' = [threads EXCEPT ![t].pc = "store", ![t].name = name]
    /\ UNCHANGED <<config, HOST, reportedID, exited, last, tg>>

\* HOST, _ = ... (logger.go:201): the first word is stored
StoreBegin(t) ==
    /\ threads[t].pc = "store"
    /\ threads' = [threads EXCEPT ![t].pc = "storing"]
    /\ UNCHANGED <<config, HOST, reportedID, exited, last, tg>>

\* the second word is stored: HOST holds the name
StoreEnd(t) ==
    /\ threads[t].pc = "storing"
    /\ HOST' = threads[t].name
    /\ threads' = [threads EXCEPT ![t].pc = "format"]
    /\ UNCHANGED <<config, reportedID, exited, last, tg>>

\* fmt.Sprintf("%s: %s %s %s: ", typeLog, ..., HOST, line) (logger.go:227)
FormatPrefix(t, seen) ==
    /\ threads[t].pc = "format"
    /\ seen \in StringReads(t)
    /\ threads' = [threads EXCEPT ![t].pc = "done", ![t].host = seen]
    /\ UNCHANGED <<config, HOST, reportedID, exited, last, tg>>

CheckHostStep == \E t \in Threads, seen \in {""} \cup HostNames : CheckHost(t, seen)
HostnameStep == \E t \in Threads, name \in HostNames : Hostname(t, name)
StoreBeginStep == \E t \in Threads : StoreBegin(t)
StoreEndStep == \E t \in Threads : StoreEnd(t)
FormatPrefixStep ==
    \E t \in Threads, seen \in {"", Torn} \cup HostNames : FormatPrefix(t, seen)

\* every goroutine is about to enter makeMessage, the cache is empty
InitRace ==
    /\ providers = [id \in IDs |-> NoSink]
    /\ logProviders = <<>>
    /\ errorProviders = <<>>
    /\ fatalProviders = <<>>
    /\ debugProviders = <<>>
    /\ level = 0
    /\ traceType = 0
    /\ HOST = ""
    /\ reportedID \in SinkIDs
    /\ exited = FALSE
    /\ last = NoCall
    /\ threads = [t \in Threads |-> [pc |-> "check", name |-> "", host |-> ""]]
    /\ tg = NoSender

NextRace ==
    \/ CheckHostStep
    \/ HostnameStep
    \/ StoreBeginStep
    \/ StoreEndStep
    \/ FormatPrefixStep

SpecRace == InitRace /\ [][NextRace]_vars

(***************************************************************************)
(* The Telegram sink (TelegramProvider).  Every sink operation starts a    *)
(* goroutine running tg_send (go tg_send(...)), which goes through the     *)
(* recipients; the model follows one such goroutine at a time.             *)
(*   tg.url, tg.chatIds   the fields of the provider                       *)
(*   tg.running           a tg_send goroutine is running                   *)
(*   tg.subject, tg.body  its arguments                                    *)
(*   tg.i                 the recipient its loop is at                     *)
(*   tg.requests          the requests handed to client.Do, in order       *)
(*   tg.open              the response bodies whose Close is deferred      *)
(*   tg.crashed           the process has died of a panic in the goroutine *)
(***************************************************************************)
\* the longest recipient list of a Telegram sink
MaxChats == 2

\* a URL http.NewRequest accepts, and one it cannot parse
GoodUrl == "https://api.example.org/send"
BadUrl == "https://api.example.org/send\n"
Urls == {GoodUrl, BadUrl}
ChatIds == {"1", "2"}
ChatLists == SeqsUpTo(ChatIds, MaxChats)

\* NewTelegramProvider (part_000:222-236): a non-empty url, a non-nil list
NewTelegramProvider(url, chatIds) ==
    [url |-> url, chatIds |-> chatIds, running |-> FALSE, subject |-> <<>>,
     body |-> <<>>, i |-> 0, requests |-> <<>>, open |-> 0, crashed |-> FALSE]

\* the messages handed to the sink
SinkMessages ==
    {<<"ERROR", ":", SP, "text">>, <<"LOG", ":", SP, "format", ":", SP, "10">>}

\* the JSON text of one request: the chat, and the subject followed by the body
RequestText(chatId, subject, body) ==
    [chat_id |-> chatId, text |-> subject \o body]

\* send (part_000:258-260): go tg_send(p.url, p.chatIds, subject, body)
send(subject, body) ==
    /\ ~tg.running
    /\ ~tg.crashed
    /\ tg' = [tg EXCEPT !.running = TRUE, !.subject = subject, !.body = body,
                        !.i = 1, !.requests = <<>>, !.open = 0]
    /\ UNCHANGED <<config, HOST, reportedID, exited, last, threads>>

\* TelegramProvider.Log, Error, Fatal, Debug (part_000:242-256)
TelegramLog(msg) == send(<<"Log message", NL>>, msg)
TelegramError(msg) == send(<<"Error message", NL>>, msg)
TelegramFatal(msg) == send(<<"Fatal message", NL>>, msg)
TelegramDebug(msg) == send(<<"Debug message", NL>>, msg)

\* One pass of the loop of tg_send (part_000:263-272).  http.NewRequest
\* returns a nil request and an error for a URL it cannot parse, and
\* req.Header.Set on the nil request panics.  client.Do returns a response, or
\* a nil response and an error (delivered is FALSE); defer resp.Body.Close()
\* reads resp.Body at once, which panics on the nil response.  Nothing
\* recovers a panic in the goroutine: the process dies.
tg_send(delivered) ==
    /\ tg.running
    /\ tg.i <= Len(tg.chatIds)
    /\ IF tg.url = BadUrl
       THEN tg' = [tg EXCEPT !.running = FALSE, !.open = 0, !.crashed = TRUE]
       ELSE LET sent == Append(tg.requests,
                               RequestText(tg.chatIds[tg.i], tg.subject, tg.body))
            IN  IF delivered
                THEN tg' = [tg EXCEPT !.requests = sent, !.open = @ + 1,
                                      !.i = @ + 1]
                ELSE tg' = [tg EXCEPT !.requests = sent, !.running = FALSE,
                                      !.open = 0, !.crashed = TRUE]
    /\ UNCHANGED <<config, HOST, reportedID, exited, last, threads>>

\* tg_send returns after the last recipient: the deferred Close calls run
tg_send_return ==
    /\ tg.running
    /\ tg.i > Len(tg.chatIds)
    /\ tg' = [tg EXCEPT !.running = FALSE, !.open = 0]
    /\ UNCHANGED <<config, HOST, reportedID, exited, last, threads>>

TelegramLogStep == \E msg \in SinkMessages : TelegramLog(msg)
TelegramErrorStep == \E msg \in SinkMessages : TelegramError(msg)
TelegramFatalStep == \E msg \in SinkMessages : TelegramFatal(msg)
TelegramDebugStep == \E msg \in SinkMessages : TelegramDebug(msg)
tg_sendStep == \E delivered \in BOOLEAN : tg_send(delivered)

\* a logger, and a Telegram sink made by NewTelegramProvider
InitTelegram ==
    /\ providers = [id \in IDs |-> NoSink]
    /\ logProviders = <<>>
    /\ errorProviders = <<>>
    /\ fatalProviders = <<>>
    /\ debugProviders = <<>>
    /\ level = 0
    /\ traceType = 0
    /\ HOST = ""
    /\ reportedID \in SinkIDs
    /\ exited = FALSE
    /\ last = NoCall
    /\ threads = NoThreads
    /\ tg \in {NewTelegramProvider(url, chatIds) :
                   url \in Urls, chatIds \in ChatLists}

NextTelegram ==
    \/ TelegramLogStep
    \/ TelegramErrorStep
    \/ TelegramFatalStep
    \/ TelegramDebugStep
    \/ tg_sendStep
    \/ tg_send_return

SpecTelegram == InitTelegram /\ [][NextTelegram]_vars

(***************************************************************************)
(* Vocabulary of the properties.                                           *)
(***************************************************************************)
Categories == {"log", "error", "fatal", "debug"}

\* the routing list of a category
Routing ==
    [log |-> logProviders, error |-> errorProviders,
     fatal |-> fatalProviders, debug |-> debugProviders]

\* the attach call of a category
AttachOp ==
    [log |-> "AddLogProvider", error |-> "AddErrorProvider",
     fatal |-> "AddFatalProvider", debug |-> "AddDebugProvider"]

NoDuplicates(s) == \A i, j \in 1..Len(s) : i # j => s[i] # s[j]

\* the position of the first occurrence of x in s (0: none)
FirstIndex(s, x) ==
    IF x \in Range(s) THEN CHOOSE i \in 1..Len(s) :
                               s[i] = x /\ \A j \in 1..(i - 1) : s[j] # x
    ELSE 0

\* C1: in every state reached by RegisterProvider and Add*Provider calls, with
\* IDs repeated inside one call or across calls, none of the four category
\* lists holds a sink ID more than once.
C1_ListsHaveNoDuplicates == \A c \in Categories : NoDuplicates(Routing[c])

\* An attach call that named b twice has run on a list that held a already.
C1_Witness ==
    /\ last.op = "AddDebugProvider"
    /\ last.ids = <<"b", "b">>
    /\ debugProviders = <<"a", "b">>

\* what an attach call with arguments ids appends to a list: the entries after
\* the old ones are the registered arguments the list did not hold, each
\* once, in the order of their first occurrence among the arguments
AppendsNewInOrder(old, new, ids, provs) ==
    /\ IsPrefix(old, new)
    /\ LET added == SubSeq(new, Len(old) + 1, Len(new))
       IN  /\ NoDuplicates(added)
           /\ Range(added) = {id \in Range(ids) :
                                 provs[id] # NoSink /\ id \notin Range(old)}
           /\ \A i, j \in 1..Len(added) :
                 i < j => FirstIndex(ids, added[i]) < FirstIndex(ids, added[j])

\* C2: a category list is append-only and order-preserving: every step leaves
\* the entries a list holds where they are, and an attach call only appends,
\* at the end and in argument order, the registered IDs it newly attaches.
C2_AppendOnlyInArgumentOrder ==
    [][\A c \in Categories :
          /\ IsPrefix(Routing[c], Routing[c]')
          /\ last'.op = AttachOp[c] =>
                 AppendsNewInOrder(Routing[c], Routing[c]', last'.ids, providers)
          /\ last'.op # AttachOp[c] => Routing[c]' = Routing[c]]_vars

\* a was attached to the fatal list first; a later call naming b, then a,
\* appended b behind it.
C2_Witness ==
    /\ last.op = "AddFatalProvider"
    /\ last.ids = <<"b", "a">>
    /\ fatalProviders = <<"a", "b">>

\* the sinks a dispatch over the list reaches
Reached(list) ==
    {call.sink : call \in Range(DispatchLoop(list, 1, "Log", <<>>, {}).calls)}

\* C7: attaching an ID that is not in the registry at the time of the call is
\* a no-op: the list does not hold the ID afterwards, no error or panic is
\* raised, the registered IDs of the same call are attached all the same; and
\* the attach is not deferred: registering a sink leaves the four lists as
\* they are, and as long as its ID is in no list a dispatch does not reach it.
C7_UnknownIDIsIgnored ==
    [][\A c \in Categories :
          /\ last'.op = AttachOp[c] =>
                 /\ ~last'.err
                 /\ ~last'.panicked
                 /\ \A id \in Range(last'.ids) :
                       IF providers[id] = NoSink
                       THEN id \notin Range(Routing[c]')
                       ELSE id \in Range(Routing[c]')
                 /\ (\A id \in Range(last'.ids) : providers[id] = NoSink)
                        => Routing[c]' = Routing[c]
          /\ last'.op = "RegisterProvider" =>
                 /\ Routing[c]' = Routing[c]
                 /\ reportedID[last'.sink] \notin Range(Routing[c])
                        => last'.sink \notin Reached(Routing[c])']_vars

\* An attach call named b, which is not registered, and then a, which is.
C7_Witness ==
    /\ last.op = "AddErrorProvider"
    /\ last.ids = <<"b", "a">>
    /\ providers["b"] = NoSink
    /\ errorProviders = <<"a">>

\* C8: SetTraceType with a value other than TRACE_TYPE_ONE and TRACE_TYPE_ANY
\* returns an error and leaves the trace mode and the rest of the state as
\* they are; with one of the two it returns no error and the trace mode is
\* that value.
C8_SetTraceTypeValidates ==
    [][last'.op = "SetTraceType" =>
          /\ IF last'.val \in {TRACE_TYPE_ONE, TRACE_TYPE_ANY}
             THEN ~last'.err /\ traceType' = last'.val
             ELSE last'.err /\ traceType' = traceType
          /\ UNCHANGED <<providers, lists, level, HOST, reportedID, exited>>]_vars

\* A call with an invalid value has returned an error while the mode was
\* TRACE_TYPE_ANY, and it still is.
C8_Witness ==
    /\ last.op = "SetTraceType"
    /\ last.err
    /\ last.val \notin {TRACE_TYPE_ONE, TRACE_TYPE_ANY}
    /\ traceType = TRACE_TYPE_ANY

\* the logging calls, the category each dispatches to, the sink operation
\* each invokes
LoggingOps ==
    {"Log", "Logf", "Error", "Errorf", "Debug", "Debugf", "Fatal", "Fatalf"}

CategoryOf ==
    [Log |-> "log", Logf |-> "log", Error |-> "error", Errorf |-> "error",
     Debug |-> "debug", Debugf |-> "debug", Fatal |-> "fatal", Fatalf |-> "fatal"]

SinkOpOf ==
    [Log |-> "Log", Logf |-> "Log", Error |-> "Error", Errorf |-> "Error",
     Debug |-> "Debug", Debugf |-> "Debug", Fatal |-> "Fatal", Fatalf |-> "Fatal"]

\* the level gate leaves the call standing
Passes(op, lv) ==
    /\ op \in {"Log", "Logf"} => lv >= LEVEL_INFO
    /\ op \in {"Debug", "Debugf"} => lv >= LEVEL_DEBUG

\* the sink of every list entry, in list order
SinksOf(list, provs) == [i \in 1..Len(list) |-> provs[list[i]]]

\* the sinks invoked, in order of invocation
Invoked(calls) == [i \in 1..Len(calls) |-> calls[i].sink]

\* In the formulas below last is a logging call that has just ended; the
\* level, the registry and the lists are those it ran with (see C9).

\* C3: whatever the routing table, a Log or Logf call made while the level is
\* below LEVEL_INFO and a Debug or Debugf call made while it is below
\* LEVEL_DEBUG invokes no operation of any sink and builds no message.
C3_GatedCallsAreSilent ==
    (last.op \in LoggingOps /\ ~Passes(last.op, level)) =>
        /\ last.calls = <<>>
        /\ last.msgs = <<>>
        /\ ~last.panicked

\* Debugf was called at LEVEL_INFO with two sinks in the debug list, and
\* invoked none.
C3_Witness ==
    /\ last.op = "Debugf"
    /\ level = LEVEL_INFO
    /\ Len(debugProviders) = 2
    /\ last.calls = <<>>
    /\ last.msgs = <<>>

\* C4 as stated: at every level an Error or Errorf call invokes the Error
\* operation of every sink of the error list.
C4_Original ==
    last.op \in {"Error", "Errorf"} =>
        \A i \in 1..Len(errorProviders) :
           \E k \in 1..Len(last.calls) :
              /\ last.calls[k].sink = providers[errorProviders[i]]
              /\ last.calls[k].op = "Error"

\* C4, amended: at every level an Error or Errorf call invokes the Error
\* operation of the sinks of the error list one after the other, of all of
\* them when none panics; a panic ends the call at the sink that panicked.
C4_ErrorIsNeverGated ==
    last.op \in {"Error", "Errorf"} =>
        /\ Len(last.msgs) = 1
        /\ \A k \in 1..Len(last.calls) : last.calls[k].op = "Error"
        /\ IsPrefix(Invoked(last.calls), SinksOf(errorProviders, providers))
        /\ ~last.panicked =>
               Invoked(last.calls) = SinksOf(errorProviders, providers)
        /\ last.panicked => last.calls # <<>>

\* Error was called at LEVEL_ERROR with two sinks in the error list and
\* invoked both.
C4_Witness ==
    /\ last.op = "Error"
    /\ level = LEVEL_ERROR
    /\ Len(errorProviders) = 2
    /\ Len(last.calls) = 2
    /\ ~last.panicked

\* C5 as stated: at every level a Fatal or Fatalf call invokes the Fatal
\* operation of every sink of the fatal list and then ends the process with a
\* non-zero status; control does not return to the caller.
C5_Original ==
    last.op \in {"Fatal", "Fatalf"} =>
        /\ Invoked(last.calls) = SinksOf(fatalProviders, providers)
        /\ exited
        /\ last.status # 0
        /\ ~last.panicked

\* C5, amended: at every level a Fatal or Fatalf call invokes the Fatal
\* operation of the sinks of the fatal list one after the other; when none of
\* them panics it has invoked them all and ends the process with status 1, and
\* no call runs after that; when one panics the call ends there, the process
\* is not ended and the panic reaches the caller.
C5_FatalDispatchesThenExits ==
    /\ last.op \in {"Fatal", "Fatalf"} =>
           /\ \A k \in 1..Len(last.calls) : last.calls[k].op = "Fatal"
           /\ IsPrefix(Invoked(last.calls), SinksOf(fatalProviders, providers))
           /\ exited = ~last.panicked
           /\ exited =>
                  /\ last.status = 1
                  /\ Invoked(last.calls) = SinksOf(fatalProviders, providers)
           /\ last.panicked => last.status = 0 /\ last.calls # <<>>
    /\ exited => last.op \in {"Fatal", "Fatalf"}

\* Fatalf was called at LEVEL_ERROR with two sinks in the fatal list, invoked
\* both and ended the process.
C5_Witness ==
    /\ last.op = "Fatalf"
    /\ level = LEVEL_ERROR
    /\ Len(fatalProviders) = 2
    /\ Len(last.calls) = 2
    /\ exited
    /\ last.status = 1

\* the calls a dispatch of message msg over the list makes when no sink panics
ExpectedCalls(list, provs, sinkOp, msg) ==
    [i \in 1..Len(list) |-> SinkCall(provs[list[i]], sinkOp, msg)]

\* C6 as stated: a logging call that passes the level gate invokes, for each
\* ID of its own category list and in list order, exactly one operation on
\* that sink, the one matching the call, all with the same message, and no
\* operation on any other sink.
C6_Original ==
    (last.op \in LoggingOps /\ Passes(last.op, level)) =>
        /\ Len(last.msgs) = 1
        /\ last.calls =
               ExpectedCalls(Routing[CategoryOf[last.op]], providers,
                             SinkOpOf[last.op], last.msgs[1])

\* C6, amended: a logging call that passes the level gate builds one message
\* and goes through its own category list in order, invoking on the sink of
\* each ID the one operation matching the call with that message; it goes
\* through the whole list when no sink operation panics, and stops at the
\* first sink whose operation panics.  It invokes nothing else.
C6_DispatchInListOrder ==
    (last.op \in LoggingOps /\ Passes(last.op, level)) =>
        /\ Len(last.msgs) = 1
        /\ LET expected == ExpectedCalls(Routing[CategoryOf[last.op]], providers,
                                         SinkOpOf[last.op], last.msgs[1])
           IN  /\ IsPrefix(last.calls, expected)
               /\ ~last.panicked => last.calls = expected
               /\ last.panicked => last.calls # <<>>

\* Debug was called with b before a in the debug list and only a in the log
\* list, and invoked the sink of b, then the sink of a.
C6_Witness ==
    /\ last.op = "Debug"
    /\ debugProviders = <<"b", "a">>
    /\ logProviders = <<"a">>
    /\ Len(last.calls) = 2
    /\ last.calls[1].sink = providers["b"]
    /\ last.calls[2].sink = providers["a"]
    /\ last.calls[1].msg = last.calls[2].msg

\* C9: no logging call, suppressed or not, changes the sink registry, any of
\* the four category lists, the level or the trace mode.
C9_LoggingLeavesConfiguration ==
    [][last'.op \in LoggingOps => UNCHANGED config]_vars

\* Logf has dispatched to the two sinks of the log list at LEVEL_DEBUG.
C9_Witness ==
    /\ last.op = "Logf"
    /\ Len(last.calls) = 2
    /\ level = LEVEL_DEBUG
    /\ Len(logProviders) = 2
    /\ Len(fatalProviders) = 1

\* one part as it appears in the body: its printed form without the carriage
\* returns, every newline turned into a tab
PartText(v) ==
    LET kept == SelectSeq(Sprint(v), LAMBDA c : c # CR)
    IN  [i \in 1..Len(kept) |-> IF kept[i] = NL THEN TAB ELSE kept[i]]

\* the parts' texts with one space between consecutive parts
RECURSIVE BodyOf(_)
BodyOf(parts) ==
    IF parts = <<>> THEN <<>>
    ELSE IF Len(parts) = 1 THEN PartText(parts[1])
    ELSE PartText(parts[1]) \o <<SP>> \o BodyOf(Tail(parts))

\* C10: for every sequence of parts, the message makeMessage returns is the
\* prefix followed by the body, the body being the printed parts joined by one
\* space (none before the first), with every carriage return removed and every
\* newline replaced by one tab; the message holds no newline and no carriage
\* return; with no parts it is the prefix alone.
C10_BodyIsFlattened ==
    last.op = "makeMessage" =>
        LET msg == last.msgs[1]
            prefix == MessagePrefix(last.tag, last.now, HOST,
                                    LocationField(last.callers, last.val))
        IN  /\ Len(last.msgs) = 1
            /\ msg = prefix \o BodyOf(last.parts)
            /\ NL \notin Range(msg)
            /\ CR \notin Range(msg)
            /\ last.parts = <<>> => msg = prefix

\* A message was built from a part with a newline and a part with a carriage
\* return and a newline.
C10_Witness ==
    /\ last.op = "makeMessage"
    /\ last.parts = <<StrPart(<<"line1", NL, "line2">>),
                      StrPart(<<"line3", CR, NL, "line4">>)>>
    /\ Len(last.msgs) = 1
    /\ SubSeq(last.msgs[1], Len(last.msgs[1]) - 6, Len(last.msgs[1]))
           = <<"line1", TAB, "line2", SP, "line3", TAB, "line4">>


(***************************************************************************)
(* The location field of a message.                                        *)
(***************************************************************************)
\* the severity tag of each logging call
TagOf ==
    [Log |-> "LOG", Logf |-> "LOG", Error |-> "ERROR", Errorf |-> "ERROR",
     Debug |-> "DEBUG", Debugf |-> "DEBUG", Fatal |-> "FATAL", Fatalf |-> "FATAL"]

\* "<file>:<line>"
Entry(fr) == <<fr.file, ":", fr.line>>

\* the entries of the frames, comma-separated, in order
RECURSIVE JoinEntries(_)
JoinEntries(frames) ==
    IF frames = <<>> THEN <<>>
    ELSE IF Len(frames) = 1 THEN Entry(frames[1])
    ELSE Entry(frames[1]) \o <<",", SP>> \o JoinEntries(Tail(frames))

\* the frames before the boundary frame (the test runner's, testing.go), all
\* of them when there is none
UpToBoundary(frames) ==
    LET at == {i \in 1..Len(frames) : frames[i].file = "testing.go"}
    IN  IF at = {} THEN frames
        ELSE SubSeq(frames, 1, (CHOOSE i \in at : \A j \in at : i <= j) - 1)

\* the last logging call built a message whose location field is line
HasLocation(line) ==
    /\ Len(last.msgs) = 1
    /\ \E now \in Times :
          IsPrefix(MessagePrefix(TagOf[last.op], now, HOST, line), last.msgs[1])

\* the last call is a logging call that built a message in the trace mode
BuiltIn(mode) ==
    /\ last.op \in LoggingOps
    /\ last.msgs # <<>>
    /\ traceType = mode

\* C11 as stated: in TRACE_TYPE_ONE the location field of every message a
\* logging call builds, plain or formatted, is exactly one "<file>:<line>"
\* entry, that of the immediate caller of the logging call, the first frame
\* outside the logging module, for every call stack.
C11_Original ==
    BuiltIn(TRACE_TYPE_ONE) => HasLocation(Entry(last.callers[1]))

\* C12 as stated: in TRACE_TYPE_ANY the location field holds, comma-separated
\* and innermost first, the entry of every frame above the logging call, from
\* the immediate caller up to the boundary frame or the end of the stack,
\* whatever the depth of the stack and whichever logging call was used.
C12_Original ==
    BuiltIn(TRACE_TYPE_ANY) => HasLocation(JoinEntries(UpToBoundary(last.callers)))

\* C13: RegisterProvider stores the sink under the ID it reports and the last
\* registration of an ID wins: after the call the registry maps that ID to
\* the sink just registered and is unchanged elsewhere, the four category
\* lists are unchanged, and every sink a later logging call invokes is the one
\* registered last under its ID, never one that was replaced.
C13_LastRegistrationWins ==
    [][/\ last'.op = "RegisterProvider" =>
              /\ providers' = [providers EXCEPT
                                  ![reportedID[last'.sink]] = last'.sink]
              /\ UNCHANGED lists
       /\ last'.op \in LoggingOps =>
              \A k \in 1..Len(last'.calls) :
                  providers[reportedID[last'.calls[k].sink]] = last'.calls[k].sink]_vars

\* Both sinks report the ID a; s1 holds it in the registry and a logging call
\* has invoked s1 through the error list.
C13_Witness ==
    /\ reportedID["s2"] = "a"
    /\ providers["a"] = "s1"
    /\ errorProviders = <<"a">>
    /\ last.op = "Errorf"
    /\ Len(last.calls) = 1
    /\ last.calls[1].sink = "s1"

\* the recipients of the requests issued, in order
Recipients(requests) == [k \in 1..Len(requests) |-> requests[k].chat_id]

\* C14 as stated: for the Telegram sink a dispatch issues one request per
\* recipient, and a failure for one recipient (the request cannot be built,
\* the HTTP call returns an error) neither prevents the requests to the
\* remaining recipients nor fails anything outside the sink: the process keeps
\* running, and when the sender is through, every recipient of a sink with a
\* usable URL has had its request.
C14_Original ==
    /\ ~tg.crashed
    /\ (tg.i > 0 /\ ~tg.running /\ tg.url = GoodUrl)
           => Recipients(tg.requests) = tg.chatIds

\* A text with its two-character sequences flattened, left to right: a
\* carriage return followed by a newline becomes one tab, two consecutive
\* newlines become twoNewlines; of the characters left over, a newline becomes
\* a tab and a carriage return disappears.
RECURSIVE FlattenPairs(_, _)
FlattenPairs(s, twoNewlines) ==
    IF s = <<>> THEN <<>>
    ELSE IF Len(s) >= 2 /\ s[1] = CR /\ s[2] = NL
         THEN <<TAB>> \o FlattenPairs(SubSeq(s, 3, Len(s)), twoNewlines)
    ELSE IF Len(s) >= 2 /\ s[1] = NL /\ s[2] = NL
         THEN twoNewlines \o FlattenPairs(SubSeq(s, 3, Len(s)), twoNewlines)
    ELSE IF s[1] = NL THEN <<TAB>> \o FlattenPairs(Tail(s), twoNewlines)
    ELSE IF s[1] = CR THEN FlattenPairs(Tail(s), twoNewlines)
    ELSE <<s[1]>> \o FlattenPairs(Tail(s), twoNewlines)

\* the body of the parts with their pairs flattened that way
RECURSIVE PairsBody(_, _)
PairsBody(parts, twoNewlines) ==
    IF parts = <<>> THEN <<>>
    ELSE IF Len(parts) = 1 THEN FlattenPairs(Sprint(parts[1]), twoNewlines)
    ELSE FlattenPairs(Sprint(parts[1]), twoNewlines) \o <<SP>>
             \o PairsBody(Tail(parts), twoNewlines)

\* the message of the last build is its prefix followed by body
BuiltBody(body) ==
    /\ Len(last.msgs) = 1
    /\ last.msgs[1] = MessagePrefix(last.tag, last.now, HOST,
                                    LocationField(last.callers, last.val)) \o body

\* C15 as stated: in the body of a built message every "\n\n" and every
\* "\r\n" of a part has become exactly one tab.
C15_Original ==
    last.op = "makeMessage" => BuiltBody(PairsBody(last.parts, <<TAB>>))

\* C15, amended: in the body of a built message every "\r\n" of a part has
\* become exactly one tab (the carriage return is removed, the newline
\* replaced), and every "\n\n" has become two tabs, one for each newline.
C15_PairsAreFlattenedPerCharacter ==
    last.op = "makeMessage" => BuiltBody(PairsBody(last.parts, <<TAB, TAB>>))

\* A message was built from a part with two consecutive newlines and a part
\* with a carriage return and a newline: the body has two tabs for the first
\* and one for the second.
C15_Witness ==
    /\ last.op = "makeMessage"
    /\ last.parts = <<StrPart(<<"p", NL, NL, "q">>),
                      StrPart(<<"line3", CR, NL, "line4">>)>>
    /\ BuiltBody(<<"p", TAB, TAB, "q", SP, "line3", TAB, "line4">>)

\* the message of a call starts with its tag, the time and the host name host
CarriesHost(call, host) ==
    /\ Len(call.msgs) = 1
    /\ \E now \in Times :
          IsPrefix(<<TagOf[call.op], ":", SP>> \o Str(now) \o <<SP>> \o Str(host)
                       \o <<SP>>, call.msgs[1])

\* C16 as stated: across the message builds of one process the host name is
\* resolved exactly once, on the first build, whatever that resolution
\* returned; every later build resolves nothing and reuses the cached value.
C16_Original ==
    [][last'.op \in LoggingOps =>
          /\ last'.resolved <=> last.op = "NewLogger"
          /\ last.op \in LoggingOps => HOST' = HOST /\ CarriesHost(last', HOST)]_vars

\* C16, amended: a message build resolves the host name exactly when the
\* cache is empty, so every build resolves it until a resolution returns a
\* non-empty name; once the cache holds a name, every later build resolves
\* nothing, leaves the cache as it is and carries the cached name.
C16_HostResolvedUntilCached ==
    [][last'.op \in LoggingOps =>
          /\ last'.resolved <=> HOST = ""
          /\ HOST # "" => HOST' = HOST
          /\ CarriesHost(last', HOST')]_vars

\* A build has found the name myhost in the cache, resolved nothing, and its
\* message carries that name.
C16_Witness ==
    /\ last.op = "Errorf"
    /\ ~last.resolved
    /\ HOST = "myhost"
    /\ CarriesHost(last, "myhost")

\* the goroutines that have built their message
Built == {t \in Threads : threads[t].pc = "done"}

\* C17 as stated: for every interleaving of the goroutines that build a
\* message while the cache is empty, the unsynchronised check-then-set of the
\* cache is benign: every message built carries the same resolved host name,
\* and the cache holds that name once a build has completed and no assignment
\* is under way.
C17_Original ==
    \E name \in HostNames :
        /\ \A t \in Built : threads[t].host = name
        /\ (Built # {} /\ \A t \in Threads : threads[t].pc # "storing")
               => HOST = name

\* the positions of a list of expected calls at which the sink panics
PanicsAt(expected) ==
    {k \in 1..Len(expected) : expected[k].sink \in PanickingSinks}

\* C18: when a sink operation panics during the dispatch of a logging call
\* the dispatcher does not recover it: the call has invoked the sinks of its
\* list up to the first one that panics and none after it, the panic reaches
\* the caller, and in Fatal and Fatalf the process exit is not executed; when
\* no sink of the list panics, no panic reaches the caller.
C18_PanicIsNotRecovered ==
    (last.op \in LoggingOps /\ Passes(last.op, level)) =>
        LET expected == ExpectedCalls(Routing[CategoryOf[last.op]], providers,
                                      SinkOpOf[last.op], last.msgs[1])
            at == PanicsAt(expected)
        IN  IF at = {}
            THEN ~last.panicked
            ELSE LET first == CHOOSE k \in at : \A j \in at : k <= j
                 IN  /\ last.panicked
                     /\ last.calls = SubSeq(expected, 1, first)
                     /\ ~exited
                     /\ last.status = 0

\* Fatal was called with the panicking sink first and the other sink second
\* in the fatal list: only the first was invoked, the panic reached the
\* caller and the process did not exit.
C18_Witness ==
    /\ last.op = "Fatal"
    /\ Len(fatalProviders) = 2
    /\ providers[fatalProviders[1]] = "s1"
    /\ providers[fatalProviders[2]] = "s2"
    /\ Len(last.calls) = 1
    /\ last.calls[1].sink = "s1"
    /\ last.panicked
    /\ ~exited

\* C19: with sinks whose reported ID does not change, in every state reached
\* by register and attach calls every ID held by one of the four category
\* lists is a key of the sink registry, so a dispatch over a list skips none
\* of its IDs: it makes one call for each.
C19_ListedIDsAreRegistered ==
    \A c \in Categories :
        /\ \A id \in Range(Routing[c]) : providers[id] # NoSink
        /\ Len(DispatchLoop(Routing[c], 1, "Log", <<>>, {}).calls) = Len(Routing[c])

\* An attach call that named only the unregistered b has run on the log list,
\* which holds a, while the fatal list holds nothing.
C19_Witness ==
    /\ last.op = "AddLogProvider"
    /\ last.ids = <<"b", "b">>
    /\ providers["b"] = NoSink
    /\ providers["a"] # NoSink
    /\ logProviders = <<"a">>
    /\ fatalProviders = <<>>

\* C20: an attach call for one category changes at most the list of that
\* category: the other three lists, the sink registry, the level and the
\* trace mode are as before; SetLevel and RegisterProvider change none of the
\* four lists.
C20_AttachTouchesOneList ==
    [][/\ \A c \in Categories :
             last'.op = AttachOp[c] =>
                 /\ \A d \in Categories \ {c} : Routing[d]' = Routing[d]
                 /\ UNCHANGED <<providers, level, traceType>>
       /\ last'.op \in {"SetLevel", "RegisterProvider"} => UNCHANGED lists]_vars

\* AddDebugProvider has attached a and b to the debug list while the log list
\* held b only and the error list nothing, at LEVEL_DEBUG in TRACE_TYPE_ANY.
C20_Witness ==
    /\ last.op = "AddDebugProvider"
    /\ last.ids = <<"a", "b">>
    /\ debugProviders = <<"a", "b">>
    /\ logProviders = <<"b">>
    /\ errorProviders = <<>>
    /\ level = LEVEL_DEBUG
    /\ traceType = TRACE_TYPE_ANY
====
